---- MODULE Spec2Model ----
(***************************************************************************)
(* A model of the Slack remote of flottbot (remote/slack/remote.go):       *)
(* Client.InteractiveComponents and its package-level singleton router,    *)
(* Client.Read, Client.Reaction and Client.Send.                           *)
(*                                                                         *)
(* Each operation is cut into steps at the statements that touch shared    *)
(* state or call the platform, so that the interleavings of concurrent     *)
(* goroutines and the order of the calls are those of the code.            *)
(***************************************************************************)
EXTENDS Integers, Sequences, FiniteSets, TLC

(***************************************************************************)
(* Bounds of the model.                                                    *)
(***************************************************************************)
\* invocations of InteractiveComponents, each made by a goroutine of its own
\* for the message it handles
NumProcs == 2
\* distinct fill patterns of the outbound texts handed to Send
NumPatterns == 2

Procs == 1..NumProcs

(***************************************************************************)
(* Values.                                                                 *)
(***************************************************************************)
\* a nil *mux.Router; routers are named by the goroutine that created them
Nil == 0

\* the strings a credential field of Client may hold
Tokens == {"", "xoxb-1"}

\* callback paths, as sequences of characters: "", "/a/b", "a/b" and "/ "
Paths ==
    { <<>>, <<"/", "a", "/", "b">>, <<"a", "/", "b">>, <<"/", " ">> }

\* the rules an invocation may be handed; its message is the one its
\* goroutine handles, named by the goroutine
Rules == {"rule1", "rule2"}

HealthPath == <<"/", "interaction_health">>

VARIABLES
    \* Client and model.Bot configuration
    Token,                          \* c.Token
    VerificationToken,              \* c.VerificationToken
    CLI,                            \* bot.CLI
    InteractiveComponentsEnabled,   \* bot.InteractiveComponents
    SlackEventsCallbackPath,        \* bot.SlackEventsCallbackPath
    SlackInteractionsCallbackPath,  \* bot.SlackInteractionsCallbackPath
    \* InteractiveComponents
    interactionsRouter,             \* the package-level *mux.Router
    routes,                         \* the routes registered on each router
    listeners,                      \* the http.ListenAndServe goroutine each invocation launched
    ic,                             \* each goroutine's invocation: position and arguments
    \* Read
    rd,                             \* Read's position and its local rat
    botID,                          \* bot.ID
    botChannels,                    \* bot.Channels
    idWrites,                       \* how many times bot.ID was assigned
    readers,                        \* the readers started
    exited,                         \* bot.Log.Fatal ended the process
    \* Reaction
    rx,                             \* Reaction's position and arguments
    \* Send
    sd,                             \* Send's position, its argument and its local copy
    sent,                           \* the messages handed to send(api, message, bot)
    \* the platform
    apiCalls,                       \* the calls made on the Slack API client, in order
    \* the bot's log sink
    log

confVars ==
    << Token, VerificationToken, CLI, InteractiveComponentsEnabled,
       SlackEventsCallbackPath, SlackInteractionsCallbackPath >>
icVars == << interactionsRouter, routes, listeners, ic >>
readVars == << rd, botID, botChannels, idWrites, readers, exited >>
sendVars == << sd, sent >>
vars == << confVars, icVars, readVars, rx, sendVars, apiCalls, log >>

\* what InteractiveComponents never touches
notIC == << confVars, readVars, rx, sendVars, apiCalls >>

(***************************************************************************)
(* Helpers.                                                                *)
(***************************************************************************)
\* bot.Log.<Level>(...) issued at a source line
Logged(level, line) == log' = log \cup {[level |-> level, line |-> line]}

\* the path-syntax validator: a non-empty absolute path (a leading separator)
\* made of segments of path-safe characters
IsSafeChar(ch) == ch \in {"a", "b"}
isValidPath(p) ==
    /\ Len(p) > 0
    /\ p[1] = "/"
    /\ \A i \in 1..Len(p) : p[i] = "/" \/ IsSafeChar(p[i])

(***************************************************************************)
(* Client.InteractiveComponents.                                           *)
(***************************************************************************)
IdleInvocation ==
    [ pc |-> "idle", rule |-> "none", message |-> Nil,
      created |-> FALSE, launched |-> FALSE, processed |-> FALSE ]

ICInit ==
    /\ interactionsRouter = Nil
    /\ routes = [r \in Procs |-> << >>]
    /\ listeners = [t \in Procs |-> [router |-> Nil, status |-> "none"]]
    /\ ic = [t \in Procs |-> IdleInvocation]

\* the check of the verification token left out of the condition
Preconditions_NoToken == InteractiveComponentsEnabled

\* line 145: the two configuration preconditions of the whole body
Preconditions == InteractiveComponentsEnabled /\ Len(VerificationToken) > 0

\* the nil check left out: every invocation builds a router
RouterIsNil_NoGuard == TRUE

\* line 151: the plain nil check of the package-level router
RouterIsNil == interactionsRouter = Nil

\* the invocation of goroutine t returns
ICReturn(t) == ic' = [ic EXCEPT ![t].pc = "done"]

\* lines 144-151: the call, the configuration checks and the nil check
ICEnter(t, rule) ==
    /\ ic[t].pc = "idle"
    /\ LET inv == [IdleInvocation EXCEPT !.pc = "done", !.rule = rule, !.message = t]
       IN  IF ~Preconditions
           THEN /\ ic' = [ic EXCEPT ![t] = inv]
                /\ UNCHANGED log
           ELSE IF Len(SlackInteractionsCallbackPath) = 0
           THEN /\ ic' = [ic EXCEPT ![t] = inv]
                /\ log' = log \cup { [level |-> "error", line |-> 147],
                                     [level |-> "warn", line |-> 148] }
           ELSE /\ ic' = [ic EXCEPT ![t] =
                            [inv EXCEPT !.pc = IF RouterIsNil THEN "new" ELSE "process"]]
                /\ UNCHANGED log
    /\ UNCHANGED << notIC, interactionsRouter, routes, listeners >>

\* line 153: interactionsRouter = mux.NewRouter()
ICNewRouter(t) ==
    /\ ic[t].pc = "new"
    /\ interactionsRouter' = t
    /\ routes' = [routes EXCEPT ![t] = << >>]
    /\ ic' = [ic EXCEPT ![t].pc = "health", ![t].created = TRUE]
    /\ UNCHANGED << notIC, listeners, log >>

\* line 156: the health route, registered on the router the global names now
ICHealthRoute(t) ==
    /\ ic[t].pc = "health"
    /\ routes' = [routes EXCEPT ![interactionsRouter] =
                    Append(@, [path |-> HealthPath, method |-> "GET",
                               rule |-> "none", message |-> Nil])]
    /\ ic' = [ic EXCEPT ![t].pc = "rule"]
    /\ UNCHANGED << notIC, interactionsRouter, listeners, log >>

\* lines 159-168: the rule handler closes over this invocation's rule and
\* message; an invalid path returns, a valid one gets the POST route
ICRuleRoute(t) ==
    /\ ic[t].pc = "rule"
    /\ IF ~isValidPath(SlackInteractionsCallbackPath)
       THEN /\ log' = log \cup { [level |-> "error", line |-> 164],
                                 [level |-> "warn", line |-> 165] }
            /\ ICReturn(t)
            /\ UNCHANGED routes
       ELSE /\ routes' = [routes EXCEPT ![interactionsRouter] =
                            Append(@, [path |-> SlackInteractionsCallbackPath,
                                       method |-> "POST",
                                       rule |-> ic[t].rule,
                                       message |-> ic[t].message])]
            /\ ic' = [ic EXCEPT ![t].pc = "listen"]
            /\ UNCHANGED log
    /\ UNCHANGED << notIC, interactionsRouter, listeners >>

\* lines 171-172: go http.ListenAndServe(":4000", interactionsRouter)
ICListen(t) ==
    /\ ic[t].pc = "listen"
    /\ listeners' = [listeners EXCEPT ![t] = [router |-> interactionsRouter,
                                              status |-> "launched"]]
    /\ Logged("info", 172)
    /\ ic' = [ic EXCEPT ![t].pc = "process", ![t].launched = TRUE]
    /\ UNCHANGED << notIC, interactionsRouter, routes >>

\* the invocation that launched the listener waits until it serves
ICProcess_AwaitsListener(t) ==
    /\ ic[t].pc = "process"
    /\ ic[t].launched => listeners[t].status = "serving"
    /\ ic' = [ic EXCEPT ![t].pc = "done", ![t].processed = TRUE]
    /\ UNCHANGED << notIC, interactionsRouter, routes, listeners, log >>

\* line 176: processInteractiveComponentRule(rule, message, bot), and return
ICProcess(t) ==
    /\ ic[t].pc = "process"
    /\ ic' = [ic EXCEPT ![t].pc = "done", ![t].processed = TRUE]
    /\ UNCHANGED << notIC, interactionsRouter, routes, listeners, log >>

\* the goroutine of line 171 runs: it binds port 4000 and serves, or
\* ListenAndServe returns an error (the port is taken) that nobody reads
ListenAndServe(i) ==
    /\ listeners[i].status = "launched"
    /\ \E free \in BOOLEAN :
         listeners' = [listeners EXCEPT ![i].status =
             IF free /\ \A j \in Procs : listeners[j].status # "serving"
             THEN "serving" ELSE "failed"]
    /\ UNCHANGED << notIC, interactionsRouter, routes, ic, log >>

\* the rule and message the handler of a POST on the interactions path was
\* built with at line 159: mux serves a request with the first route that
\* matches it
CallbackHandler(r) ==
    LET matching == { i \in 1..Len(routes[r]) :
                        /\ routes[r][i].method = "POST"
                        /\ routes[r][i].path = SlackInteractionsCallbackPath }
        first == CHOOSE i \in matching : \A j \in matching : i <= j
    IN  [rule |-> routes[r][first].rule, message |-> routes[r][first].message]

ICStep(t) ==
    \/ \E rule \in Rules : ICEnter(t, rule)
    \/ ICNewRouter(t)
    \/ ICHealthRoute(t)
    \/ ICRuleRoute(t)
    \/ ICListen(t)
    \/ ICProcess(t)

(***************************************************************************)
(* Client.Read.                                                            *)
(***************************************************************************)
\* the user IDs auth.test may answer with, and the channel sets getChannels
\* may return
UserIDs == {"U1", "U2"}
ChannelSets == { {}, {"C1"}, {"C1", "C2"} }

ReadOff == [pc |-> "off", rat |-> ""]

ReadIdle ==
    /\ rd = ReadOff
    /\ botID = ""
    /\ botChannels = {}
    /\ idWrites = 0
    /\ readers = {}
    /\ exited = FALSE

ReadInit ==
    /\ rd = [pc |-> "start", rat |-> ""]
    /\ botID = ""
    /\ botChannels = {}
    /\ idWrites = 0
    /\ readers = {}
    /\ exited = FALSE

\* the two branches in the other order: a bot token wins
UseEventsAPI_TokenFirst == Len(VerificationToken) > 0 /\ Len(Token) = 0

\* line 88: a verification token selects the Events API
UseEventsAPI == Len(VerificationToken) > 0

\* the else branch taken without looking at the bot token
UseRTM_Always == TRUE

\* line 101: otherwise a bot token selects the RTM
UseRTM == Len(Token) > 0

\* line 89: the events callback path is set
EventsPathSet == Len(SlackEventsCallbackPath) # 0

\* the validation of the events path left out
EventsPathValid_Skipped == TRUE

\* line 94: the events callback path passes the validator
EventsPathValid == isValidPath(SlackEventsCallbackPath)

\* the assignment left out of the branches
AssignBotID_Forgotten == UNCHANGED << botID, idWrites >>

\* lines 99 and 102: bot.ID = rat.UserID
AssignBotID ==
    /\ botID' = rd.rat
    /\ idWrites' = idWrites + 1

\* lines 74-77: bot.Channels = getChannels(api)
ReadGetChannels ==
    /\ rd.pc = "start"
    /\ \E chans \in ChannelSets : botChannels' = chans
    /\ apiCalls' = Append(apiCalls, [op |-> "getChannels"])
    /\ rd' = [rd EXCEPT !.pc = "auth"]
    /\ UNCHANGED << confVars, icVars, botID, idWrites, readers, exited, rx,
                    sendVars, log >>

\* lines 80-85: rat, err := api.AuthTest(); an error closes the reader
ReadAuthTest ==
    /\ rd.pc = "auth"
    /\ apiCalls' = Append(apiCalls, [op |-> "AuthTest"])
    /\ \E res \in UserIDs \cup {"err"} :
         IF res = "err"
         THEN /\ log' = log \cup { [level |-> "error", line |-> 82],
                                   [level |-> "warn", line |-> 83] }
              /\ rd' = [rd EXCEPT !.pc = "returned"]
         ELSE /\ rd' = [rd EXCEPT !.pc = "select", !.rat = res]
              /\ UNCHANGED log
    /\ UNCHANGED << confVars, icVars, botID, botChannels, idWrites, readers,
                    exited, rx, sendVars >>

\* lines 88-111 up to the start of a reader: the choice of the reader, the
\* checks of the events path, the assignment of bot.ID, and the case of no
\* token at all
ReadSelect ==
    /\ rd.pc = "select"
    /\ IF UseEventsAPI
       THEN IF ~EventsPathSet
            THEN /\ log' = log \cup { [level |-> "error", line |-> 90],
                                      [level |-> "debug", line |-> 91] }
                 /\ rd' = [rd EXCEPT !.pc = "returned"]
                 /\ UNCHANGED << botID, idWrites, exited >>
            ELSE IF ~EventsPathValid
            THEN /\ log' = log \cup { [level |-> "error", line |-> 95],
                                      [level |-> "debug", line |-> 96] }
                 /\ rd' = [rd EXCEPT !.pc = "returned"]
                 /\ UNCHANGED << botID, idWrites, exited >>
            ELSE /\ AssignBotID
                 /\ rd' = [rd EXCEPT !.pc = "events"]
                 /\ UNCHANGED << log, exited >>
       ELSE IF UseRTM
       THEN /\ AssignBotID
            /\ rd' = [rd EXCEPT !.pc = "rtm"]
            /\ UNCHANGED << log, exited >>
       ELSE IF ~CLI
       THEN /\ Logged("fatal", 107)
            /\ exited' = TRUE
            /\ rd' = [rd EXCEPT !.pc = "exited"]
            /\ UNCHANGED << botID, idWrites >>
       ELSE /\ Logged("warn", 109)
            /\ rd' = [rd EXCEPT !.pc = "returned"]
            /\ UNCHANGED << botID, idWrites, exited >>
    /\ UNCHANGED << confVars, icVars, botChannels, readers, rx, sendVars, apiCalls >>

\* line 100: readFromEventsAPI(api, c.VerificationToken, inputMsgs, bot)
ReadFromEventsAPI ==
    /\ rd.pc = "events"
    /\ readers' = readers \cup {"readFromEventsAPI"}
    /\ rd' = [rd EXCEPT !.pc = "reading"]
    /\ UNCHANGED << confVars, icVars, botID, botChannels, idWrites, exited, rx,
                    sendVars, apiCalls, log >>

\* lines 103-104: rtm := api.NewRTM(); readFromRTM(rtm, inputMsgs, bot)
ReadFromRTM ==
    /\ rd.pc = "rtm"
    /\ apiCalls' = Append(apiCalls, [op |-> "NewRTM"])
    /\ readers' = readers \cup {"readFromRTM"}
    /\ rd' = [rd EXCEPT !.pc = "reading"]
    /\ UNCHANGED << confVars, icVars, botID, botChannels, idWrites, exited, rx,
                    sendVars, log >>

(***************************************************************************)
(* Client.Reaction.                                                        *)
(***************************************************************************)
\* the reaction names a rule may hold ("" is none), and the channel IDs and
\* timestamps of the message
ReactionNames == {"", "eyes", "white_check_mark"}
ChannelIDs == {"C1", "C2"}
Timestamps == {"1.1", "2.2"}

ReactionOff ==
    [ pc |-> "off", RemoveReaction |-> "", Reaction |-> "",
      ChannelID |-> "C1", Timestamp |-> "1.1" ]

\* the two arguments of NewRefToMessage taken in the wrong order
MsgRef_Swapped == [Channel |-> rx.Timestamp, Timestamp |-> rx.ChannelID]

\* slack.NewRefToMessage(message.ChannelID, message.Timestamp), lines 48, 60
MsgRef == [Channel |-> rx.ChannelID, Timestamp |-> rx.Timestamp]

\* line 52: what a failed RemoveReaction leads to
AfterRemoveError == "returned"

\* lines 44-55: the reaction to remove
ReactionRemove ==
    /\ rx.pc = "remove"
    /\ IF Len(rx.RemoveReaction) > 0
       THEN \E err \in BOOLEAN :
              /\ apiCalls' = Append(apiCalls,
                    [op |-> "RemoveReaction", name |-> rx.RemoveReaction,
                     ref |-> MsgRef, err |-> err])
              /\ IF err
                 THEN /\ Logged("error", 51)
                      /\ rx' = [rx EXCEPT !.pc = AfterRemoveError]
                 ELSE /\ Logged("debug", 54)
                      /\ rx' = [rx EXCEPT !.pc = "add"]
       ELSE /\ rx' = [rx EXCEPT !.pc = "add"]
            /\ UNCHANGED << apiCalls, log >>
    /\ UNCHANGED << confVars, icVars, readVars, sendVars >>

\* lines 56-68: the reaction to add
ReactionAdd ==
    /\ rx.pc = "add"
    /\ IF Len(rx.Reaction) > 0
       THEN \E err \in BOOLEAN :
              /\ apiCalls' = Append(apiCalls,
                    [op |-> "AddReaction", name |-> rx.Reaction,
                     ref |-> MsgRef, err |-> err])
              /\ Logged(IF err THEN "error" ELSE "debug", IF err THEN 63 ELSE 66)
       ELSE UNCHANGED << apiCalls, log >>
    /\ rx' = [rx EXCEPT !.pc = "returned"]
    /\ UNCHANGED << confVars, icVars, readVars, sendVars >>

(***************************************************************************)
(* Client.Send.                                                            *)
(***************************************************************************)
\* line 122: the hard limit of a Slack message
MaxOutputLen == 4000
\* line 124: what is kept of a longer one
KeptLen == 3997
\* line 124: "..."
Ellipsis == << ".", ".", "." >>

\* the lengths of the texts handed to Send
Lengths ==
    { 0, 1, KeptLen - 1, KeptLen, KeptLen + 1, MaxOutputLen - 1, MaxOutputLen,
      MaxOutputLen + 1, MaxOutputLen + 2, MaxOutputLen + 500 }

\* the text of length n of fill pattern k: its bytes depend on their place
Text(n, k) ==
    [ i \in 1..n |-> IF (i + k) % 7 = 0 THEN "." ELSE
                     IF (i * k) % 3 = 0 THEN "a" ELSE "b" ]

\* model.MessageType, and a value outside the declared ones
MsgTypes == {"MsgTypeUnknown", "MsgTypeDirect", "MsgTypeChannel",
             "MsgTypePrivateChannel", "other"}

\* what model.MessageTimestamp() may return; 0 is the zero EndTime
Times == {1, 2}

SendOff ==
    [ pc |-> "off", input |-> << >>,
      message |-> [Output |-> << >>, Type |-> "MsgTypeUnknown", EndTime |-> 0] ]

\* the cut made at the limit instead of three bytes before it
Trim_AtLimit(output) ==
    IF Len(output) > MaxOutputLen
    THEN SubSeq(output, 1, MaxOutputLen) \o Ellipsis
    ELSE output

\* lines 122-125: the trimmed output
Trim(output) ==
    IF Len(output) > MaxOutputLen
    THEN SubSeq(output, 1, KeptLen) \o Ellipsis
    ELSE output

\* a case list that forgets the private channels
IsSendType_NoPrivate(type) == type \in {"MsgTypeDirect", "MsgTypeChannel"}

\* line 132: the types that are sent
IsSendType(type) ==
    type \in {"MsgTypeDirect", "MsgTypeChannel", "MsgTypePrivateChannel"}

\* lines 116-125: the size check on Send's own copy of the message
SendTrim ==
    /\ sd.pc = "trim"
    /\ Logged("debug", 116)
    /\ sd' = [sd EXCEPT !.pc = "stamp", !.message.Output = Trim(@)]
    /\ UNCHANGED << confVars, icVars, readVars, rx, sent, apiCalls >>

\* line 128: message.EndTime = model.MessageTimestamp()
SendStamp ==
    /\ sd.pc = "stamp"
    /\ \E now \in Times : sd' = [sd EXCEPT !.pc = "route", !.message.EndTime = now]
    /\ UNCHANGED << confVars, icVars, readVars, rx, sent, apiCalls, log >>

\* lines 131-136: the switch on the message type
SendRoute ==
    /\ sd.pc = "route"
    /\ IF IsSendType(sd.message.Type)
       THEN /\ sent' = Append(sent, sd.message)
            /\ UNCHANGED log
       ELSE /\ Logged("warn", 135)
            /\ UNCHANGED sent
    /\ sd' = [sd EXCEPT !.pc = "returned"]
    /\ UNCHANGED << confVars, icVars, readVars, rx, apiCalls >>

(***************************************************************************)
(* InteractiveComponents invoked from concurrent goroutines.               *)
(***************************************************************************)
ICConf ==
    /\ Token = ""
    /\ VerificationToken \in Tokens
    /\ CLI = FALSE
    /\ InteractiveComponentsEnabled \in BOOLEAN
    /\ SlackEventsCallbackPath = << >>
    /\ SlackInteractionsCallbackPath \in Paths

OthersOff ==
    /\ rx = ReactionOff
    /\ sd = SendOff
    /\ sent = << >>
    /\ apiCalls = << >>
    /\ log = {}

Init ==
    /\ ICConf
    /\ ICInit
    /\ ReadIdle
    /\ OthersOff

Next ==
    \/ \E t \in Procs : ICStep(t)
    \/ \E t \in Procs : ListenAndServe(t)

Spec == Init /\ [][Next]_vars

(***************************************************************************)
(* InteractiveComponents invoked again and again, one invocation at a      *)
(* time: an invocation starts only when no other is under way.             *)
(***************************************************************************)
InFlight(t) == ic[t].pc \notin {"idle", "done"}

SeqNext ==
    \/ \E t \in Procs, rule \in Rules :
          (\A u \in Procs : ~InFlight(u)) /\ ICEnter(t, rule)
    \/ \E t \in Procs : ICNewRouter(t)
    \/ \E t \in Procs : ICHealthRoute(t)
    \/ \E t \in Procs : ICRuleRoute(t)
    \/ \E t \in Procs : ICListen(t)
    \/ \E t \in Procs : ICProcess(t)
    \/ \E t \in Procs : ListenAndServe(t)

SeqSpec == Init /\ [][SeqNext]_vars

(***************************************************************************)
(* One execution of Read, under every configuration.                       *)
(***************************************************************************)
ReadSpecInit ==
    /\ Token \in Tokens
    /\ VerificationToken \in Tokens
    /\ CLI \in BOOLEAN
    /\ InteractiveComponentsEnabled = FALSE
    /\ SlackEventsCallbackPath \in Paths
    /\ SlackInteractionsCallbackPath = << >>
    /\ ICInit
    /\ ReadInit
    /\ OthersOff

ReadNext ==
    \/ ReadGetChannels
    \/ ReadAuthTest
    \/ ReadSelect
    \/ ReadFromEventsAPI
    \/ ReadFromRTM

ReadSpec == ReadSpecInit /\ [][ReadNext]_vars

(***************************************************************************)
(* One call of Reaction, for every rule and message.                       *)
(***************************************************************************)
NoConf ==
    /\ Token \in Tokens
    /\ VerificationToken = ""
    /\ CLI = FALSE
    /\ InteractiveComponentsEnabled = FALSE
    /\ SlackEventsCallbackPath = << >>
    /\ SlackInteractionsCallbackPath = << >>

ReactionSpecInit ==
    /\ NoConf
    /\ ICInit
    /\ ReadIdle
    /\ rx \in [ pc : {"remove"}, RemoveReaction : ReactionNames,
                Reaction : ReactionNames, ChannelID : ChannelIDs,
                Timestamp : Timestamps ]
    /\ sd = SendOff
    /\ sent = << >>
    /\ apiCalls = << >>
    /\ log = {}

ReactionNext ==
    \/ ReactionRemove
    \/ ReactionAdd

ReactionSpec == ReactionSpecInit /\ [][ReactionNext]_vars

(***************************************************************************)
(* One call of Send, for texts around the limit and every message type.    *)
(***************************************************************************)
SendSpecInit ==
    /\ NoConf
    /\ ICInit
    /\ ReadIdle
    /\ rx = ReactionOff
    /\ \E n \in Lengths, k \in 1..NumPatterns, type \in MsgTypes :
         sd = [ pc |-> "trim", input |-> Text(n, k),
                message |-> [Output |-> Text(n, k), Type |-> type, EndTime |-> 0] ]
    /\ sent = << >>
    /\ apiCalls = << >>
    /\ log = {}

SendNext ==
    \/ SendTrim
    \/ SendStamp
    \/ SendRoute

SendSpec == SendSpecInit /\ [][SendNext]_vars

(***************************************************************************)
(* The properties checked.                                                 *)
(***************************************************************************)
\* the invocations that launched a listener, and those that built a router
Launched == {t \in Procs : listeners[t].status # "none"}
Created == {t \in Procs : ic[t].created}
ListenerRouters == [t \in Procs |-> listeners[t].router]

\* Read is over: it returned, it blocks in its reader, or the process exited
ReadOver == rd.pc \in {"returned", "reading", "exited"}
LoggedAt(level) == \E e \in log : e.level = level

\* C1: however InteractiveComponents is invoked concurrently, at most one
\* invocation builds the router and at most one launches the listener
C1_OneListenerConcurrently ==
    /\ Cardinality(Launched) <= 1
    /\ Cardinality(Created) <= 1

\* C2: when the invocations do not overlap, the listener is launched at most
\* once, and from the launch on no step changes the router, its routes or
\* the listeners launched
C2_OneListenerSequentially ==
    [][ /\ Cardinality(Launched') <= 1
        /\ Launched # {} =>
             /\ interactionsRouter' = interactionsRouter
             /\ routes' = routes
             /\ Launched' = Launched
             /\ ListenerRouters' = ListenerRouters ]_vars

\* a second invocation ran to its end after the first had launched the listener
C2_Witness ==
    /\ Cardinality(Launched) = 1
    /\ \E t \in Procs :
         /\ ic[t].pc = "done"
         /\ ic[t].processed
         /\ ~ic[t].launched

\* C3, as stated: with both credentials set, a finished Read has started
\* exactly one reader (taken here in its weakest reading, for the executions
\* in which AuthTest succeeded)
C3_ExactlyOneReader ==
    (Len(Token) > 0 /\ Len(VerificationToken) > 0 /\ ReadOver /\ rd.rat # "")
        => Cardinality(readers) = 1

\* C3, amended: with both credentials set, Read never starts readFromRTM and
\* never two readers, and a finished Read has started readFromEventsAPI
\* exactly when AuthTest succeeded and the events path is set and valid
C3_WebhookOrNothing ==
    (Len(Token) > 0 /\ Len(VerificationToken) > 0)
        => /\ "readFromRTM" \notin readers
           /\ Cardinality(readers) <= 1
           /\ ReadOver =>
                ( readers = {"readFromEventsAPI"}
                    <=> /\ rd.rat # ""
                        /\ Len(SlackEventsCallbackPath) > 0
                        /\ isValidPath(SlackEventsCallbackPath) )

\* both credentials set, and the Events API reader running
C3_Witness ==
    /\ Len(Token) > 0
    /\ Len(VerificationToken) > 0
    /\ rd.pc = "reading"
    /\ readers = {"readFromEventsAPI"}

\* C4: at most one reader is started; with a verification token readFromRTM
\* never is; readFromRTM is started only with no verification token and with
\* a bot token
C4_ReaderPrecedence ==
    /\ Cardinality(readers) <= 1
    /\ Len(VerificationToken) > 0 => "readFromRTM" \notin readers
    /\ "readFromRTM" \in readers =>
          Len(VerificationToken) = 0 /\ Len(Token) > 0

\* the RTM reader running
C4_Witness ==
    /\ rd.pc = "reading"
    /\ readers = {"readFromRTM"}

\* C5: a finished Read with neither credential has started no reader, and has
\* reported a fatal condition if bot.CLI is false, or a warning and no fatal
\* condition if it is true
C5_NoCredentials ==
    (Len(Token) = 0 /\ Len(VerificationToken) = 0 /\ ReadOver)
        => /\ readers = {}
           /\ IF ~CLI
              THEN LoggedAt("fatal") /\ exited
              ELSE LoggedAt("warn") /\ ~LoggedAt("fatal") /\ ~exited

\* C6: a Read whose AuthTest failed has ended the process if bot.CLI is
\* false, and has warned and returned with no reader if it is true
C6_AuthFailure ==
    (ReadOver /\ rd.rat = "")
        => IF ~CLI
           THEN LoggedAt("fatal") /\ exited
           ELSE LoggedAt("warn") /\ ~exited /\ readers = {}

\* C7: a Reaction for a rule with a reaction to remove and one to add has,
\* when it returns, issued both calls, whatever either answered
C7_BothAttempted ==
    (rx.pc = "returned" /\ Len(rx.RemoveReaction) > 0 /\ Len(rx.Reaction) > 0)
        => /\ \E i \in 1..Len(apiCalls) : apiCalls[i].op = "RemoveReaction"
           /\ \E i \in 1..Len(apiCalls) : apiCalls[i].op = "AddReaction"

\* the text is what Send's argument of length n must become
IsTrimmed(text, input) ==
    LET n == Len(input)
    IN  /\ Len(text) = IF n < 4000 THEN n ELSE 4000
        /\ n > 4000 =>
             /\ Len(text) = 4000
             /\ \A i \in 1..3997 : text[i] = input[i]
             /\ << text[3998], text[3999], text[4000] >> = << ".", ".", "." >>
        /\ n <= 4000 => text = input

\* C8: past the size check, the text of Send's message, and of every message
\* it hands to send, is its argument cut to 3997 bytes and "..." if that was
\* longer than 4000, and its argument unchanged otherwise
C8_Truncation ==
    /\ sd.pc \in {"stamp", "route", "returned"} =>
          IsTrimmed(sd.message.Output, sd.input)
    /\ \A i \in 1..Len(sent) : IsTrimmed(sent[i].Output, sd.input)

\* a text longer than the limit was sent
C8_Witness ==
    /\ Len(sd.input) > 4000
    /\ Len(sent) = 1

\* C9: a returned Send has handed a direct, channel or private-channel message
\* to send exactly once, and any other message never, with a warning; and the
\* end time is set whenever the switch is reached or a message handed over
C9_SendRouting ==
    /\ Len(sent) <= 1
    /\ sd.pc = "returned" =>
          IF sd.message.Type \in
                {"MsgTypeDirect", "MsgTypeChannel", "MsgTypePrivateChannel"}
          THEN Len(sent) = 1 /\ ~LoggedAt("warn")
          ELSE Len(sent) = 0 /\ LoggedAt("warn")
    /\ sd.pc \in {"route", "returned"} => sd.message.EndTime # 0
    /\ \A i \in 1..Len(sent) : sent[i].EndTime # 0 /\ sent[i].Type = sd.message.Type

\* a message for a private channel was sent
C9_Witness ==
    /\ sd.pc = "returned"
    /\ sd.message.Type = "MsgTypePrivateChannel"
    /\ Len(sent) = 1

\* C10: with a verification token and an events path that is empty or not
\* valid, Read starts no reader, never reports a fatal condition or ends the
\* process, and has logged an error when it has returned
C10_BadEventsPath ==
    ( /\ Len(VerificationToken) > 0
      /\ Len(SlackEventsCallbackPath) = 0 \/ ~isValidPath(SlackEventsCallbackPath) )
        => /\ readers = {}
           /\ rd.pc \notin {"events", "rtm", "reading", "exited"}
           /\ ~LoggedAt("fatal")
           /\ ~exited
           /\ rd.pc = "returned" => LoggedAt("error")

\* both credentials, a path without its leading separator, AuthTest passed,
\* and Read returned
C10_Witness ==
    /\ Len(VerificationToken) > 0
    /\ Len(Token) > 0
    /\ Len(SlackEventsCallbackPath) > 0
    /\ ~isValidPath(SlackEventsCallbackPath)
    /\ rd.rat # ""
    /\ rd.pc = "returned"

\* C11: an invocation launches the listener only when interactive components
\* are enabled, the verification token is set, and the interactions path is
\* set and valid; with any of these unmet no invocation launches one
C11_LaunchNeedsPreconditions ==
    \A t \in Procs :
        (ic[t].launched \/ ic[t].pc = "listen" \/ listeners[t].status # "none")
            => /\ InteractiveComponentsEnabled
               /\ Len(VerificationToken) > 0
               /\ Len(SlackInteractionsCallbackPath) > 0
               /\ isValidPath(SlackInteractionsCallbackPath)

\* an invocation launched the listener
C11_Witness == \E t \in Procs : ic[t].launched /\ listeners[t].status # "none"

\* C12: when a reader is about to start or has started, AuthTest has
\* succeeded, bot.ID holds the user ID it returned, and getChannels has been
\* called and its result assigned to bot.Channels
C12_IdentityBeforeReader ==
    (rd.pc \in {"events", "rtm", "reading"} \/ readers # {})
        => /\ rd.rat \in {"U1", "U2"}
           /\ botID = rd.rat
           /\ idWrites >= 1
           /\ Len(apiCalls) >= 2
           /\ apiCalls[1].op = "getChannels"
           /\ apiCalls[2].op = "AuthTest"
           /\ botChannels \in ChannelSets

\* a reader runs, for a bot in two channels
C12_Witness ==
    /\ readers # {}
    /\ botID = "U2"
    /\ botChannels = {"C1", "C2"}

\* C13: Read calls getChannels and assigns bot.Channels only after AuthTest
\* has succeeded, and a Read whose AuthTest failed has left bot.Channels and
\* bot.ID as they were
C13_ChannelsAfterAuth ==
    /\ \A i \in 1..Len(apiCalls) :
         apiCalls[i].op = "getChannels" =>
            /\ rd.rat # ""
            /\ \E j \in 1..(i - 1) : apiCalls[j].op = "AuthTest"
    /\ (rd.pc = "returned" /\ rd.rat = "") => (botChannels = {} /\ botID = "")

\* C14: a Read whose AuthTest succeeded and that returned or runs its reader
\* (the process still lives) has assigned bot.ID exactly once, to the user ID
\* returned, whatever it selected
C14_IdAssignedOnce ==
    (rd.pc \in {"returned", "reading"} /\ rd.rat # "")
        => (idWrites = 1 /\ botID = rd.rat)

\* the places of the calls of one kind among the platform calls made
CallsOf(op) == {i \in 1..Len(apiCalls) : apiCalls[i].op = op}

\* C15: Reaction makes each of the two calls at most once, a RemoveReaction
\* only before an AddReaction, each for the reaction the rule names and on the
\* message of the input's channel ID and timestamp, and no call at all for a
\* rule that names neither
C15_RemoveThenAdd ==
    /\ Cardinality(CallsOf("RemoveReaction")) <= 1
    /\ Cardinality(CallsOf("AddReaction")) <= 1
    /\ \A i \in CallsOf("RemoveReaction"), j \in CallsOf("AddReaction") : i < j
    /\ \A j \in CallsOf("AddReaction") :
         Len(rx.RemoveReaction) > 0 => CallsOf("RemoveReaction") # {}
    /\ \A i \in 1..Len(apiCalls) :
         /\ apiCalls[i].op \in {"RemoveReaction", "AddReaction"}
         /\ apiCalls[i].ref.Channel = rx.ChannelID
         /\ apiCalls[i].ref.Timestamp = rx.Timestamp
         /\ apiCalls[i].name =
              IF apiCalls[i].op = "RemoveReaction" THEN rx.RemoveReaction
                                                   ELSE rx.Reaction
         /\ Len(apiCalls[i].name) > 0
    /\ (Len(rx.RemoveReaction) = 0 /\ Len(rx.Reaction) = 0) => apiCalls = << >>

\* both calls were made, the removal first
C15_Witness ==
    /\ rx.pc = "returned"
    /\ Len(apiCalls) = 2
    /\ apiCalls[1].op = "RemoveReaction"
    /\ apiCalls[2].op = "AddReaction"

\* router r has a route for the method and path
HasRoute(r, method, path) ==
    \E i \in 1..Len(routes[r]) :
        routes[r][i].method = method /\ routes[r][i].path = path

\* C16: from its launch on, a listener's router has both routes, GET
\* /interaction_health and POST on the interactions path
C16_RoutesBeforeListener ==
    \A t \in Procs :
        listeners[t].status # "none" =>
            /\ HasRoute(listeners[t].router, "GET", HealthPath)
            /\ HasRoute(listeners[t].router, "POST", SlackInteractionsCallbackPath)

\* C17: the invocation that launched the listener is never held up by it:
\* whatever became of the listener, it is free to process its rule, or has
\* processed it and returned
C17_FireAndForget ==
    \A t \in Procs :
        ic[t].launched =>
            \/ ic[t].pc = "process" /\ ENABLED ICProcess(t)
            \/ ic[t].pc = "done" /\ ic[t].processed

\* the bind failed, and the invocation that launched the listener processed
\* its rule and returned
C17_Witness ==
    \E t \in Procs :
        /\ ic[t].launched
        /\ listeners[t].status = "failed"
        /\ ic[t].pc = "done"
        /\ ic[t].processed

\* no invocation is under way
Quiescent == \A t \in Procs : ic[t].pc \in {"idle", "done"}

\* C18: between invocations the router is non-nil only if a listener has
\* been launched; an invocation that built a router and returned without
\* launching leaves the router nil
C18_RouterOnlyWithListener ==
    Quiescent =>
        /\ interactionsRouter # Nil => Launched # {}
        /\ \A t \in Procs :
             (ic[t].created /\ ~ic[t].launched) => interactionsRouter = Nil

\* C19: under one configuration all invocations that have returned agree on
\* whether they processed their rule, and with a precondition unmet none did
C19_SameDecisionEveryTime ==
    /\ \A t, u \in Procs :
         (ic[t].pc = "done" /\ ic[u].pc = "done")
            => ic[t].processed = ic[u].processed
    /\ ~( /\ InteractiveComponentsEnabled
          /\ Len(VerificationToken) > 0
          /\ Len(SlackInteractionsCallbackPath) > 0
          /\ isValidPath(SlackInteractionsCallbackPath) )
         => \A t \in Procs : ~ic[t].processed

\* C20: once an invocation made after the launch of the listener has processed
\* its rule, a callback request to the serving listener is handled with that
\* invocation's rule and message
C20_HandlerServesLatest ==
    \A t, u \in Procs :
        ( /\ Quiescent
          /\ listeners[t].status = "serving"
          /\ ic[u].pc = "done" /\ ic[u].processed /\ ~ic[u].launched )
            => CallbackHandler(listeners[t].router) =
                  [rule |-> ic[u].rule, message |-> ic[u].message]

====
